---------------------------- MODULE Spec2Model ----------------------------
(***************************************************************************)
(* Model of the post lifecycle of social-book (src/posts.py) and of the    *)
(* upload pipeline, sanitizer and access guard it composes                 *)
(* (src/app_tasks.py, src/constants.py, src/regexes.py).                   *)
(*                                                                         *)
(* A str is a sequence of one-character strings, a bytes value a sequence  *)
(* of integers 0..255.                                                     *)
(***************************************************************************)
EXTENDS Integers, Sequences, FiniteSets, TLC

\* The field names of the records below, in the order they are written in.
FieldNames ==
  [at |-> "at", attachment |-> "attachment",
   attachment_id |-> "attachment_id", call |-> "call", calls |-> "calls",
   code |-> "code", comments |-> "comments", content |-> "content",
   content_type |-> "content_type", created_at |-> "created_at",
   data |-> "data", detail |-> "detail", error |-> "error",
   file |-> "file", filename |-> "filename", files |-> "files",
   first_name |-> "first_name", found |-> "found", id |-> "id",
   kind |-> "kind", last_name |-> "last_name", len |-> "len",
   likes |-> "likes", mime |-> "mime", msg |-> "msg", op |-> "op",
   part |-> "part", pc |-> "pc", posts |-> "posts", proc |-> "proc",
   profile_picture |-> "profile_picture", raised |-> "raised",
   ran |-> "ran", referer |-> "referer", response |-> "response",
   ret |-> "ret", sig |-> "sig", status |-> "status", steps |-> "steps",
   str |-> "str", t |-> "t", target |-> "target", url |-> "url",
   user |-> "user", username |-> "username", v |-> "v", valid |-> "valid"]

(***************************************************************************)
(* Characters                                                              *)
(***************************************************************************)

\* The printable ASCII characters, code 32 first (code 96 is written "grave").
Ascii ==
  << " ", "!", "\"", "#", "$", "%", "&", "'", "(", ")", "*", "+", ",", "-", ".", "/",
     "0", "1", "2", "3", "4", "5", "6", "7", "8", "9", ":", ";", "<", "=", ">", "?",
     "@", "A", "B", "C", "D", "E", "F", "G", "H", "I", "J", "K", "L", "M", "N", "O",
     "P", "Q", "R", "S", "T", "U", "V", "W", "X", "Y", "Z", "[", "\\", "]", "^", "_",
     "grave", "a", "b", "c", "d", "e", "f", "g", "h", "i", "j", "k", "l", "m", "n", "o",
     "p", "q", "r", "s", "t", "u", "v", "w", "x", "y", "z", "{", "|", "}", "~" >>

UpperCase == { Ascii[i] : i \in 34..59 }
LowerCase == { Ascii[i] : i \in 66..91 }
Digits == { Ascii[i] : i \in 17..26 }

\* Python's str whitespace, as far as it is ASCII and writable here.
Whitespace == { " ", "\t", "\n", "\r" }

\* ord() of an ASCII character.
OrdTable ==
  [c \in { Ascii[i] : i \in 1..Len(Ascii) } \cup { "\t", "\n", "\r" } |->
     CASE c = "\t" -> 9
       [] c = "\n" -> 10
       [] c = "\r" -> 13
       [] OTHER -> 31 + (CHOOSE i \in 1..Len(Ascii) : Ascii[i] = c)]

Ord(c) == OrdTable[c]

\* chr() of an ASCII code.
Chr(n) ==
  CASE n = 9 -> "\t"
    [] n = 10 -> "\n"
    [] n = 13 -> "\r"
    [] OTHER -> Ascii[n - 31]

\* str.encode('utf-8') of an ASCII str.
encode_utf8(s) == [i \in 1..Len(s) |-> Ord(s[i])]

\* bytes.decode('utf-8') of ASCII bytes.
decode_utf8(b) == [i \in 1..Len(b) |-> Chr(b[i])]

\* str.lower() of one character and of a str.
LowerChar(c) == IF c \in UpperCase THEN Chr(Ord(c) + 32) ELSE c
lower(s) == [i \in 1..Len(s) |-> LowerChar(s[i])]

RECURSIVE lstrip(_, _)
lstrip(s, chars) ==
  IF Len(s) > 0 /\ s[1] \in chars THEN lstrip(Tail(s), chars) ELSE s

RECURSIVE rstrip(_, _)
rstrip(s, chars) ==
  IF Len(s) > 0 /\ s[Len(s)] \in chars
  THEN rstrip(SubSeq(s, 1, Len(s) - 1), chars)
  ELSE s

\* str.strip(): leading and trailing whitespace removed.
strip(s) == rstrip(lstrip(s, Whitespace), Whitespace)

(***************************************************************************)
(* base64.b64encode                                                        *)
(***************************************************************************)

B64Alphabet ==
  << "A", "B", "C", "D", "E", "F", "G", "H", "I", "J", "K", "L", "M", "N", "O", "P",
     "Q", "R", "S", "T", "U", "V", "W", "X", "Y", "Z", "a", "b", "c", "d", "e", "f",
     "g", "h", "i", "j", "k", "l", "m", "n", "o", "p", "q", "r", "s", "t", "u", "v",
     "w", "x", "y", "z", "0", "1", "2", "3", "4", "5", "6", "7", "8", "9", "+", "/" >>

\* The byte of the base64 digit for a sextet 0..63.
B64Digit(n) == Ord(B64Alphabet[n + 1])

B64Pad == Ord("=")

RECURSIVE b64encode(_)
b64encode(b) ==
  IF Len(b) = 0 THEN << >>
  ELSE IF Len(b) = 1 THEN
    LET n == b[1] * 65536
    IN  << B64Digit(n \div 262144), B64Digit((n \div 4096) % 64), B64Pad, B64Pad >>
  ELSE IF Len(b) = 2 THEN
    LET n == b[1] * 65536 + b[2] * 256
    IN  << B64Digit(n \div 262144), B64Digit((n \div 4096) % 64),
           B64Digit((n \div 64) % 64), B64Pad >>
  ELSE
    LET n == b[1] * 65536 + b[2] * 256 + b[3]
    IN  << B64Digit(n \div 262144), B64Digit((n \div 4096) % 64),
           B64Digit((n \div 64) % 64), B64Digit(n % 64) >>
        \o b64encode(SubSeq(b, 4, Len(b)))

(***************************************************************************)
(* Sanitizer (src/app_tasks.py, src/regexes.py)                            *)
(***************************************************************************)

\* POST_REGEX = ^[A-Za-z0-9\s\.\,\!\?\-\'\"\n\r]+$ : the character class.
POST_REGEX ==
  UpperCase \cup LowerCase \cup Digits \cup Whitespace
    \cup { ".", ",", "!", "?", "-", "'", "\"" }

\* re.fullmatch of a pattern ^[class]+$ : one or more characters, all of the class.
re_fullmatch(pattern, value) ==
  Len(value) >= 1 /\ \A i \in 1..Len(value) : value[i] \in pattern

\* bleach.clean of one character outside a tag: markup characters are escaped,
\* a carriage return is normalised to a line feed by the HTML tokenizer.
CleanChar(c) ==
  CASE c = "<" -> << "&", "l", "t", ";" >>
    [] c = ">" -> << "&", "g", "t", ";" >>
    [] c = "&" -> << "&", "a", "m", "p", ";" >>
    [] c = "\r" -> << "\n" >>
    [] OTHER -> << c >>

RECURSIVE bleach_clean(_)
bleach_clean(value) ==
  IF Len(value) = 0 THEN << >>
  ELSE CleanChar(value[1]) \o bleach_clean(Tail(value))

\* validate_sanitize without the bleach comparison.
validate_sanitize_match_only(value, pattern) == re_fullmatch(pattern, value)

validate_sanitize(value, pattern) ==
  re_fullmatch(pattern, value) /\ bleach_clean(value) = value

(***************************************************************************)
(* Python values that end up in a post's attachment field                  *)
(***************************************************************************)

None == [code |-> 0, msg |-> "", t |-> "None", v |-> 0]
ObjectId(n) == [code |-> 0, msg |-> "", t |-> "ObjectId", v |-> n]
PyStr(m) == [code |-> 0, msg |-> m, t |-> "str", v |-> 0]
PyTuple(m, c) == [code |-> c, msg |-> m, t |-> "tuple", v |-> 0]

\* bool(x), as `not x` and `if x` take it: None and the empty string are false;
\* an ObjectId is true, its class defining neither __bool__ nor __len__.
bool(x) ==
  CASE x.t = "None" -> FALSE
    [] x.t = "str" -> x.msg # ""
    [] OTHER -> TRUE

(***************************************************************************)
(* Constants (src/constants.py)                                            *)
(***************************************************************************)

ALLOWED_FILE_EXTENSIONS ==
  { << "p", "n", "g" >>, << "j", "p", "g" >>, << "j", "p", "e", "g" >>,
    << "g", "i", "f" >>, << "m", "p", "4" >>, << "m", "o", "v" >> }

ALLOWED_MIME_TYPES ==
  { "image/jpeg", "image/png", "image/gif", "video/mp4", "video/quicktime" }

MAX_FILE_SIZE_BYTES == 50 * 1024 * 1024

HTTP_BAD_REQUEST == 400
HTTP_PAYLOAD_TOO_LARGE == 413

ERROR_FILE_TOO_LARGE == "File too large"
ERROR_INVALID_FILE_TYPE == "Invalid file type"
ERROR_FILE_TYPE_NOT_ALLOWED == "File type not allowed"
ERROR_EMPTY_FILE == "Empty File"

(***************************************************************************)
(* File validator (src/app_tasks.py)                                       *)
(***************************************************************************)

\* filename.rsplit('.', 1)[1]: what follows the last '.', for a filename with a '.'.
RECURSIVE rsplit_dot(_)
rsplit_dot(filename) ==
  IF filename[Len(filename)] = "." THEN << >>
  ELSE Append(rsplit_dot(SubSeq(filename, 1, Len(filename) - 1)), filename[Len(filename)])

\* filename.split('.', 1)[1]: what follows the FIRST '.'.
RECURSIVE split_dot(_)
split_dot(filename) ==
  IF filename[1] = "." THEN Tail(filename) ELSE split_dot(Tail(filename))

HasDot(filename) == \E i \in 1..Len(filename) : filename[i] = "."

\* The extension check with split in place of rsplit.
allowed_file_first_dot(filename) ==
  HasDot(filename) /\ lower(split_dot(filename)) \in ALLOWED_FILE_EXTENSIONS

allowed_file(filename) ==
  HasDot(filename) /\ lower(rsplit_dot(filename)) \in ALLOWED_FILE_EXTENSIONS

\* werkzeug's secure_filename: path separators become spaces, runs of whitespace
\* become one '_', characters outside [A-Za-z0-9_.-] are dropped, and leading and
\* trailing '.' and '_' are stripped.
RECURSIVE SplitJoin(_, _)
SplitJoin(s, pending) ==
  IF Len(s) = 0 THEN << >>
  ELSE IF s[1] \in Whitespace \cup { "/" } THEN SplitJoin(Tail(s), pending)
  ELSE (IF pending THEN << "_" >> ELSE << >>) \o << s[1] >>
         \o SplitJoin(Tail(s), Len(s) > 1 /\ s[2] \in Whitespace \cup { "/" })

FilenameChars == UpperCase \cup LowerCase \cup Digits \cup { "_", ".", "-" }

secure_filename(filename) ==
  LET joined == SplitJoin(filename, FALSE)
      kept == SelectSeq(joined, LAMBDA c : c \in FilenameChars)
  IN  rstrip(lstrip(kept, { ".", "_" }), { ".", "_" })

\* magic.from_buffer(file_data, mime=True): the media type of the buffer's leading
\* signature; a buffer is [len, sig], sig naming its magic number.
magic_from_buffer(file_data) ==
  IF file_data.len = 0 THEN "application/x-empty"
  ELSE CASE file_data.sig = "PNG" -> "image/png"
         [] file_data.sig = "JFIF" -> "image/jpeg"
         [] file_data.sig = "GIF8" -> "image/gif"
         [] file_data.sig = "ftypmp42" -> "video/mp4"
         [] file_data.sig = "ftypqt" -> "video/quicktime"
         [] file_data.sig = "MZ" -> "application/x-dosexec"
         [] OTHER -> "text/plain"

\* A content check that believes every buffer.
validate_file_type_any(file_data) ==
  [mime |-> magic_from_buffer(file_data), valid |-> TRUE]

validate_file_type(file_data) ==
  LET mime == magic_from_buffer(file_data)
  IN  [mime |-> mime, valid |-> mime \in ALLOWED_MIME_TYPES]

(***************************************************************************)
(* Blob store (GridFS) and upload pipeline                                 *)
(***************************************************************************)

\* GridFS.put: the store issues a fresh id and keeps the data and its metadata.
fs_put(files, oid, file_data, filename, content_type) ==
  [k \in DOMAIN files \cup { oid } |->
     IF k = oid
     THEN [content_type |-> content_type, data |-> file_data, filename |-> filename]
     ELSE files[k]]

\* GridFS.delete: removes the file with that id, if there is one.
fs_delete(files, attachment_id) ==
  [k \in { j \in DOMAIN files : ObjectId(j) # attachment_id } |-> files[k]]

\* file.tell() > MAX_FILE_SIZE_BYTES, with >= in place of >.
too_large_at_ceiling(size) == size >= MAX_FILE_SIZE_BYTES

\* file.tell() > MAX_FILE_SIZE_BYTES, the file positioned at its end.
too_large(size) == size > MAX_FILE_SIZE_BYTES

\* upload_file with the put moved before the content check: a rejected file is
\* already in the store.
upload_file_put_first(file, files, oid) ==
  IF too_large(file.data.len)
  THEN [files |-> files,
        ret |-> PyTuple(ERROR_FILE_TOO_LARGE, HTTP_PAYLOAD_TOO_LARGE),
        steps |-> << "size" >>]
  ELSE IF file.data.len = 0
  THEN [files |-> files,
        ret |-> PyStr(ERROR_EMPTY_FILE),
        steps |-> << "size", "read", "empty" >>]
  ELSE LET filename == secure_filename(file.filename) IN
    IF ~allowed_file(filename)
    THEN [files |-> files,
          ret |-> PyStr(ERROR_FILE_TYPE_NOT_ALLOWED),
          steps |-> << "size", "read", "empty", "extension" >>]
    ELSE LET checked == validate_file_type(file.data)
             stored == fs_put(files, oid, file.data, filename, checked.mime)
             steps == << "size", "read", "empty", "extension", "unique_name", "put",
                         "sniff" >>
         IN  [files |-> stored,
              ret |-> IF checked.valid
                      THEN ObjectId(oid)
                      ELSE PyTuple(ERROR_INVALID_FILE_TYPE, HTTP_BAD_REQUEST),
              steps |-> steps]

\* upload_file(file) against the blob store `files`, the store issuing `oid` on a
\* put. ret is the value returned, files the blob store afterwards, steps the
\* steps performed, in order.
upload_file(file, files, oid) ==
  IF too_large(file.data.len)
  THEN [files |-> files,
        ret |-> PyTuple(ERROR_FILE_TOO_LARGE, HTTP_PAYLOAD_TOO_LARGE),
        steps |-> << "size" >>]
  ELSE IF file.data.len = 0
  THEN [files |-> files,
        ret |-> PyStr(ERROR_EMPTY_FILE),
        steps |-> << "size", "read", "empty" >>]
  ELSE LET filename == secure_filename(file.filename) IN
    IF ~allowed_file(filename)
    THEN [files |-> files,
          ret |-> PyStr(ERROR_FILE_TYPE_NOT_ALLOWED),
          steps |-> << "size", "read", "empty", "extension" >>]
    ELSE LET checked == validate_file_type(file.data) IN
      IF ~checked.valid
      THEN [files |-> files,
            ret |-> PyTuple(ERROR_INVALID_FILE_TYPE, HTTP_BAD_REQUEST),
            steps |-> << "size", "read", "empty", "extension", "unique_name", "sniff" >>]
      ELSE [files |-> fs_put(files, oid, file.data, filename, checked.mime),
            ret |-> ObjectId(oid),
            steps |-> << "size", "read", "empty", "extension", "unique_name", "sniff",
                         "put" >>]

(***************************************************************************)
(* Bounds and request inputs                                               *)
(***************************************************************************)

\* At most MaxPosts create_post requests reach the stores.
MaxPosts == 2

Users == { "alice", "bob" }

\* The id a request names when the form carries no id: data.get('id') is None and
\* ObjectId(None) is a freshly generated id, which names no document.
NoId == 0

\* The content store issues the ids 1, 2, ... and the blob store the ids
\* MaxPosts + 1, MaxPosts + 2, ...: every id issued is fresh.

\* Form values of the content field.
Hi == << "H", "i" >>
Ok == << " ", "O", "k", "!" >>
Contents == { << " ", "\n" >>, Hi, Ok, << "<", "b", ">" >> }

\* Byte buffers.
Png10 == [len |-> 10, sig |-> "PNG"]
Text10 == [len |-> 10, sig |-> "text"]
Empty == [len |-> 0, sig |-> ""]

\* The attachment part of a create_post form: absent, with an empty filename (no
\* file chosen), or a file.
NoPart == [data |-> Empty, filename |-> << >>, part |-> FALSE]
NoFile == [data |-> Empty, filename |-> << >>, part |-> TRUE]
File(name, buffer) == [data |-> buffer, filename |-> name, part |-> TRUE]

PhotoPng == << "p", ".", "P", "N", "G" >>
ATxt == << "a", ".", "t", "x", "t" >>
EvilPng == << "e", "v", "i", "l", ".", "p", "n", "g" >>

Attachments == { NoPart, NoFile, File(PhotoPng, Png10), File(ATxt, Text10) }

(***************************************************************************)
(* State                                                                   *)
(***************************************************************************)

VARIABLES
  posts,     \* the posts collection: _id -> document
  files,     \* the blob store: _id -> file
  inserted,  \* how many posts the content store has been given
  put,       \* how many files the blob store has been given
  now,       \* the clock, in the store's resolution
  last,      \* the most recent request and its response
  listing,   \* the body of the most recent get_posts response
  call,      \* the most recent invocation of upload_file
  filename,  \* a filename being typed
  allowed,   \* what allowed_file says of it
  value,     \* a form value being typed
  verdict,   \* what validate_sanitize says of it
  procs      \* the requests in progress: what each has read, called and answered

vars ==
  << posts, files, inserted, put, now, last, listing, call, filename, allowed,
     value, verdict, procs >>

\* The responses.
Redirect == [error |-> "", status |-> 302]
Json(error, status) == [error |-> error, status |-> status]

ERROR_DIRECT_CALL_DENIED == "Direct calls are not allowed. Access denied!"
ERROR_POST_NOT_FOUND == "Post not found or forbidden"

\* A guard that lets every request through.
is_direct_call_never(referer) == FALSE

\* is_direct_call(): the request carries no Referer header.
is_direct_call(referer) == referer = FALSE

Request(op, user, referer, id, target, response, calls) ==
  [calls |-> calls,
   error |-> response.error,
   id |-> id,
   op |-> op,
   referer |-> referer,
   status |-> response.status,
   target |-> target,
   user |-> user]

\* upload_file as invoked and as it returned; NotCalled when it was not invoked.
Called(file, r) == [file |-> file, ran |-> TRUE, ret |-> r.ret, steps |-> r.steps]
NotCalled == [file |-> NoFile, ran |-> FALSE, ret |-> None, steps |-> << >>]

Init ==
  /\ posts = << >>
  /\ files = << >>
  /\ inserted = 0
  /\ put = 0
  /\ now = 0
  /\ last = Request("none", "", TRUE, NoId, "", Json("", 0), << >>)
  /\ listing = << >>
  /\ call = NotCalled
  /\ filename = << >>
  /\ allowed = FALSE
  /\ value = << >>
  /\ verdict = FALSE
  /\ procs = << >>

(***************************************************************************)
(* Content store                                                           *)
(***************************************************************************)

\* The filter without its username clause: {'_id': post_id}.
MatchesAnyOwner(docs, post_id, user) == { k \in DOMAIN docs : k = post_id }

\* find_one / update_one / delete_one filter {'_id': post_id, 'username': user}.
Matches(docs, post_id, user) ==
  { k \in DOMAIN docs : k = post_id /\ docs[k].username = user }

insert_one(docs, oid, post) ==
  [k \in DOMAIN docs \cup { oid } |-> IF k = oid THEN post ELSE docs[k]]

\* An update that also clears the attachment: {'$set': {'content': c, 'attachment':
\* None}}.
update_one_and_attachment(docs, post_id, user, content) ==
  [k \in DOMAIN docs |->
     IF k \in Matches(docs, post_id, user)
     THEN [docs[k] EXCEPT !.content = content, !.attachment = None]
     ELSE docs[k]]

\* update_one(filter, {'$set': update_fields}) with update_fields = {'content': c}.
update_one(docs, post_id, user, content) ==
  [k \in DOMAIN docs |->
     IF k \in Matches(docs, post_id, user)
     THEN [docs[k] EXCEPT !.content = content]
     ELSE docs[k]]

delete_one(docs, post_id, user) ==
  [k \in DOMAIN docs \ Matches(docs, post_id, user) |-> docs[k]]

(***************************************************************************)
(* Post lifecycle (src/posts.py)                                           *)
(***************************************************************************)

\* An exception that leaves the view function: the framework answers with the
\* status of the HTTP exception.
Unhandled(status) == [error |-> "unhandled exception", status |-> status]

\* create_post() for current_user.id = user, against the stores docs and blobs;
\* post_oid and blob_oid are the ids the stores issue next, created_at the clock.
create_post(user, referer, form_content, attachment, created_at, docs, blobs, post_oid, blob_oid) ==
  LET rejected(response) ==
        [call |-> NotCalled,
         calls |-> << >>,
         files |-> blobs,
         posts |-> docs,
         response |-> response]
      content == strip(form_content)
  IN
  IF is_direct_call(referer)
  THEN rejected(Json(ERROR_DIRECT_CALL_DENIED, 400))
  ELSE IF ~attachment.part
  THEN rejected(Unhandled(400))      \* request.files['attachment']: BadRequestKeyError
  ELSE IF Len(content) = 0
  THEN rejected(Json("Post content is required", 400))
  ELSE IF ~validate_sanitize(content, POST_REGEX)
  THEN rejected(Json("Invalid data", 400))
  ELSE
    LET encoded == b64encode(encode_utf8(content))
        uploads == Len(attachment.filename) > 0
        up == IF uploads
              THEN upload_file(attachment, blobs, blob_oid)
              ELSE [files |-> blobs, ret |-> None, steps |-> << >>]
        post == [attachment |-> up.ret,
                 comments |-> << >>,
                 content |-> encoded,
                 created_at |-> created_at,
                 likes |-> << >>,
                 username |-> user]
    IN  [call |-> IF uploads THEN Called(attachment, up) ELSE NotCalled,
         calls |-> SelectSeq(up.steps, LAMBDA c : c = "put") \o << "insert_one" >>,
         files |-> up.files,
         posts |-> insert_one(docs, post_oid, post),
         response |-> Redirect]

\* update_post staging the content without validate_sanitize.
update_post_unvalidated(user, referer, id, form_content, docs) ==
  LET rejected(response) == [calls |-> << >>, posts |-> docs, response |-> response]
      content == strip(form_content)
  IN
  IF is_direct_call(referer)
  THEN rejected(Json(ERROR_DIRECT_CALL_DENIED, 400))
  ELSE IF ~bool(ObjectId(id))
  THEN rejected(Json("Post ID is required", 400))
  ELSE IF ~(Len(content) > 0)
  THEN rejected(Json("No update fields provided", 400))
  ELSE
    LET encoded == b64encode(encode_utf8(content))
        matched_count == Cardinality(Matches(docs, id, user))
    IN  [calls |-> << "update_one" >>,
         posts |-> update_one(docs, id, user, encoded),
         response |-> IF matched_count = 0
                      THEN Json(ERROR_POST_NOT_FOUND, 403)
                      ELSE Redirect]

\* update_post() for current_user.id = user.
update_post(user, referer, id, form_content, docs) ==
  LET rejected(response) == [calls |-> << >>, posts |-> docs, response |-> response]
      content == strip(form_content)
  IN
  IF is_direct_call(referer)
  THEN rejected(Json(ERROR_DIRECT_CALL_DENIED, 400))
  ELSE IF ~bool(ObjectId(id))
  THEN rejected(Json("Post ID is required", 400))
  ELSE IF ~(Len(content) > 0 /\ validate_sanitize(content, POST_REGEX))
  THEN rejected(Json("No update fields provided", 400))
  ELSE
    LET encoded == b64encode(encode_utf8(content))
        matched_count == Cardinality(Matches(docs, id, user))
    IN  [calls |-> << "update_one" >>,
         posts |-> update_one(docs, id, user, encoded),
         response |-> IF matched_count = 0
                      THEN Json(ERROR_POST_NOT_FOUND, 403)
                      ELSE Redirect]

\* The attachment_id a delete_post form value denotes: "None" is None, a missing
\* field a fresh id.
AttachmentIdNone == None

\* delete_post() for current_user.id = user.
delete_post(user, referer, id, attachment_id, docs, blobs) ==
  LET rejected(response, calls) ==
        [calls |-> calls, files |-> blobs, posts |-> docs, response |-> response]
  IN
  IF is_direct_call(referer)
  THEN rejected(Json(ERROR_DIRECT_CALL_DENIED, 400), << >>)
  ELSE IF ~bool(ObjectId(id))
  THEN rejected(Json("Post ID is required", 400), << >>)
  ELSE IF Matches(docs, id, user) = { }
  THEN rejected(Json(ERROR_POST_NOT_FOUND, 403), << "find_one" >>)
  ELSE
    LET deleted_count == Cardinality(Matches(docs, id, user))
    IN  [calls |-> << "find_one", "delete", "delete_one" >>,
         files |-> fs_delete(blobs, attachment_id),
         posts |-> delete_one(docs, id, user),
         response |-> IF deleted_count = 0
                      THEN Json(ERROR_POST_NOT_FOUND, 403)
                      ELSE Redirect]

\* get_profile(username) of the accounts module: the poster's display profile.
get_profile(username) ==
  [first_name |-> username, last_name |-> "", profile_picture |-> ""]

\* The cursor orders of sort('created_at', 1): oldest first.
RECURSIVE sort_created_at_asc(_, _)
sort_created_at_asc(docs, ids) ==
  IF ids = { } THEN { << >> }
  ELSE UNION { { << k >> \o rest : rest \in sort_created_at_asc(docs, ids \ { k }) } :
               k \in { j \in ids : \A i \in ids : docs[j].created_at =< docs[i].created_at } }

\* The cursor orders find(filter).sort('created_at', -1) can deliver: documents
\* with equal creation times come in any order.
RECURSIVE sort_created_at_desc(_, _)
sort_created_at_desc(docs, ids) ==
  IF ids = { } THEN { << >> }
  ELSE UNION { { << k >> \o rest : rest \in sort_created_at_desc(docs, ids \ { k }) } :
               k \in { j \in ids : \A i \in ids : docs[j].created_at >= docs[i].created_at } }

\* find() or find({'username': username}), sorted; "" is no username.
find_sorted(docs, username) ==
  sort_created_at_desc(docs,
    { k \in DOMAIN docs : username = "" \/ docs[k].username = username })

\* The loop body of get_posts: one document as it is returned.
PostView(docs, k) ==
  LET post == docs[k]
      profile == get_profile(post.username)
  IN  [attachment |-> IF post.attachment # None
                      THEN [str |-> post.attachment, url |-> "/api/files/"]
                      ELSE [str |-> None, url |-> ""],
       attachment_id |-> [str |-> post.attachment],
       comments |-> post.comments,
       content |-> decode_utf8(post.content),
       created_at |-> post.created_at,
       first_name |-> profile.first_name,
       id |-> k,
       last_name |-> profile.last_name,
       likes |-> post.likes,
       profile_picture |-> profile.profile_picture,
       username |-> post.username]

\* get_posts(username), the cursor delivering the documents in `order`.
get_posts(referer, order, docs) ==
  IF is_direct_call(referer)
  THEN [calls |-> << >>,
        posts |-> << >>,
        response |-> Json(ERROR_DIRECT_CALL_DENIED, 400)]
  ELSE [calls |-> << "find" >>,
        posts |-> [i \in 1..Len(order) |-> PostView(docs, order[i])],
        response |-> Json("", 200)]

(***************************************************************************)
(* Requests                                                                *)
(***************************************************************************)

IssuedPostIds == 1..inserted
IssuedBlobIds == (MaxPosts + 1)..(MaxPosts + put)

\* The id field of an update_post or delete_post form.
IdValues == IssuedPostIds \cup { NoId }

\* The attachment_id field of a delete_post form.
AttachmentIdValues ==
  { ObjectId(b) : b \in IssuedBlobIds } \cup { AttachmentIdNone, ObjectId(NoId) }

\* The readings datetime.now() can give: time does not run backwards, and two
\* requests can read the same time. The first post is created at time 0.
Clock == IF inserted = 0 THEN { now } ELSE { now, now + 1 }

CreatePost(user, referer, form_content, attachment, t) ==
  LET r == create_post(user, referer, form_content, attachment, t, posts, files,
                       inserted + 1, MaxPosts + put + 1)
  IN  /\ Len(r.calls) > 0 => inserted < MaxPosts
      /\ Len(r.calls) = 0 => t = now
      /\ posts' = r.posts
      /\ files' = r.files
      /\ inserted' = inserted + Cardinality(DOMAIN r.posts \ DOMAIN posts)
      /\ put' = put + Cardinality(DOMAIN r.files \ DOMAIN files)
      /\ now' = t
      /\ last' = Request("create_post", user, referer, NoId, "", r.response, r.calls)
      /\ listing' = << >>
      /\ call' = r.call
      /\ UNCHANGED << filename, allowed, value, verdict, procs >>

UpdatePost(user, referer, id, form_content) ==
  LET r == update_post(user, referer, id, form_content, posts)
  IN  /\ posts' = r.posts
      /\ last' = Request("update_post", user, referer, id, "", r.response, r.calls)
      /\ listing' = << >>
      /\ call' = NotCalled
      /\ UNCHANGED << files, inserted, put, now, filename, allowed, value, verdict, procs >>

DeletePost(user, referer, id, attachment_id) ==
  LET r == delete_post(user, referer, id, attachment_id, posts, files)
  IN  /\ posts' = r.posts
      /\ files' = r.files
      /\ last' = Request("delete_post", user, referer, id, "", r.response, r.calls)
      /\ listing' = << >>
      /\ call' = NotCalled
      /\ UNCHANGED << inserted, put, now, filename, allowed, value, verdict, procs >>

GetPosts(referer, username) ==
  \E order \in find_sorted(posts, username) :
    LET r == get_posts(referer, order, posts)
    IN  /\ last' = Request("get_posts", "", referer, NoId, username, r.response, r.calls)
        /\ listing' = r.posts
        /\ call' = NotCalled
        /\ UNCHANGED << posts, files, inserted, put, now, filename, allowed, value,
                        verdict, procs >>

Next ==
  \/ \E user \in Users, referer \in BOOLEAN, form_content \in Contents,
        attachment \in Attachments, t \in Clock :
       CreatePost(user, referer, form_content, attachment, t)
  \/ \E user \in Users, referer \in BOOLEAN, id \in IdValues, form_content \in Contents :
       UpdatePost(user, referer, id, form_content)
  \/ \E user \in Users, referer \in BOOLEAN, id \in IdValues,
        attachment_id \in AttachmentIdValues :
       DeletePost(user, referer, id, attachment_id)
  \/ \E referer \in BOOLEAN, username \in Users \cup { "" } :
       GetPosts(referer, username)

Spec == Init /\ [][Next]_vars

(***************************************************************************)
(* Properties of the post lifecycle, checked under Spec                    *)
(***************************************************************************)

\* Content that update_post stages and create_post accepts.
ValidContent(form_content) ==
  Len(strip(form_content)) > 0 /\ validate_sanitize(strip(form_content), POST_REGEX)

\* This step is an update_post or delete_post by `last'.user` against post k of
\* another owner.
ForeignMutation(k) ==
  /\ last'.op \in { "update_post", "delete_post" }
  /\ last'.id = k
  /\ last'.user # posts[k].username

Forbidden(request) == request.status = 403 /\ request.error = ERROR_POST_NOT_FOUND

C2_DirectCallRejected ==
  [][ (last'.op # "none" /\ ~last'.referer)
        => /\ last'.status = 400
           /\ last'.error = ERROR_DIRECT_CALL_DENIED
           /\ last'.calls = << >>
           /\ UNCHANGED << posts, files, inserted, put >> ]_vars

\* A delete_post without Referer against the caller's own post was rejected.
C2_Witness ==
  /\ last.op = "delete_post"
  /\ ~last.referer
  /\ last.id \in DOMAIN posts
  /\ posts[last.id].username = last.user
  /\ last.status = 400

UploadFailed(c) == c.ran /\ c.ret.t # "ObjectId"

\* C3: when the upload pipeline fails inside create_post, no post is inserted and
\* the caller gets an error response.
C3_UploadFailureAbortsCreate ==
  (last.op = "create_post" /\ UploadFailed(call))
    => /\ last.status >= 400
       /\ \A i \in 1..Len(last.calls) : last.calls[i] # "insert_one"

\* C4: get_posts returns every post with the plain text that was written, that is
\* the text whose encoding is stored; and a post created without attachment is
\* stored with owner = caller and attachment = None.
C4_ContentRoundTrip ==
  /\ (last.op = "get_posts" /\ last.status = 200)
       => \A i \in 1..Len(listing) :
            /\ listing[i].id \in DOMAIN posts
            /\ b64encode(encode_utf8(listing[i].content)) = posts[listing[i].id].content
  /\ (last.op = "create_post" /\ last.status = 302 /\ ~call.ran)
       => /\ posts[inserted].username = last.user
          /\ posts[inserted].attachment = None

\* C5: a delete_post that succeeds for a post whose attachment is a blob id leaves
\* that blob out of the blob store.
C5_DeleteReleasesAttachment ==
  [][ \A k \in DOMAIN posts :
        (/\ last'.op = "delete_post"
         /\ last'.id = k
         /\ last'.status = 302
         /\ k \notin DOMAIN posts'
         /\ posts[k].attachment.t = "ObjectId")
          => posts[k].attachment.v \notin DOMAIN files' ]_vars

\* The posts a get_posts for `username` is to return.
Wanted(username) ==
  { k \in DOMAIN posts : username = "" \/ posts[k].username = username }

\* C6: get_posts returns exactly the existing posts (those of the target username
\* when one is given), each once, in descending order of creation time, the first
\* being one created latest; and update_post changes no order get_posts can return.
C6_ListingOrder ==
  [][ /\ (last'.op = "get_posts" /\ last'.status = 200)
        => /\ { listing'[i].id : i \in 1..Len(listing') } = Wanted(last'.target)
           /\ Len(listing') = Cardinality(Wanted(last'.target))
           /\ \A i \in 1..Len(listing') :
                listing'[i].created_at = posts[listing'[i].id].created_at
           /\ \A i, j \in 1..Len(listing') :
                i < j => listing'[i].created_at >= listing'[j].created_at
           /\ \A k \in Wanted(last'.target) :
                listing'[1].created_at >= posts[k].created_at
      /\ last'.op = "update_post"
        => \A username \in Users \cup { "" } :
             find_sorted(posts', username) = find_sorted(posts, username) ]_vars

\* A listing of two posts created at different times, after an update and a delete.
C6_Witness ==
  /\ last.op = "get_posts"
  /\ last.status = 200
  /\ Len(listing) = 2
  /\ listing[1].created_at > listing[2].created_at
  /\ listing[1].id > listing[2].id

\* The other fields of a post record are those of the record it was.
OnlyContentChanged(old, new) == [new EXCEPT !.content = old.content] = old

\* C14: no step changes the owner or the attachment reference of a post that
\* stays in the store, and an update_post that succeeds changes only the content
\* of the post it names: that post's owner, attachment, creation time, likes and
\* comments, every other post, the set of posts and the blob store are as before.
C14_UpdateFrame ==
  [][ /\ \A k \in DOMAIN posts \cap DOMAIN posts' :
           /\ posts'[k].username = posts[k].username
           /\ posts'[k].attachment = posts[k].attachment
      /\ (last'.op = "update_post" /\ last'.status = 302)
           => /\ DOMAIN posts' = DOMAIN posts
              /\ last'.id \in DOMAIN posts
              /\ \A k \in DOMAIN posts :
                   IF k = last'.id
                   THEN OnlyContentChanged(posts[k], posts'[k])
                   ELSE posts'[k] = posts[k]
              /\ files' = files ]_vars

\* The owner rewrote the content of a post that has a stored attachment, next to
\* another post.
C14_Witness ==
  /\ last.op = "update_post" /\ last.status = 302
  /\ posts[last.id].attachment.t = "ObjectId"
  /\ posts[last.id].content = b64encode(encode_utf8(strip(Ok)))
  /\ Cardinality(DOMAIN posts) = 2

\* The inverse of b64encode: four digits give three bytes, fewer before padding.
B64Values == [c \in { B64Digit(n) : n \in 0..63 } |->
                CHOOSE n \in 0..63 : B64Digit(n) = c]

B64Value(c) == B64Values[c]

RECURSIVE b64decode(_)
b64decode(e) ==
  IF Len(e) < 4 THEN << >>
  ELSE
    LET sextet(i) == IF e[i] = B64Pad THEN 0 ELSE B64Value(e[i])
        n == sextet(1) * 262144 + sextet(2) * 4096 + sextet(3) * 64 + sextet(4)
        bytes == << n \div 65536, (n \div 256) % 256, n % 256 >>
        kept == IF e[3] = B64Pad THEN 1 ELSE IF e[4] = B64Pad THEN 2 ELSE 3
    IN  SubSeq(bytes, 1, kept) \o b64decode(SubSeq(e, 5, Len(e)))

\* The text a stored content field encodes.
DecodedContent(post) == decode_utf8(b64decode(post.content))

\* Nothing is left of s once its leading and trailing whitespace is removed.
Blank(s) == \A i \in DOMAIN s : s[i] \in Whitespace

\* Content that is empty or that validate_sanitize rejects.
BadContent(form_content) ==
  \/ Blank(form_content)
  \/ ~validate_sanitize(strip(form_content), POST_REGEX)

\* C15: in every state, the decoded content of every stored post is non-empty
\* and accepted by validate_sanitize against POST_REGEX; a create_post or
\* update_post whose content is empty or invalid makes no store call and leaves
\* the content store and the blob store as they were, and such an update_post is
\* answered 400, with 'No update fields provided' when it carries a Referer
\* header.
C15_ContentInvariant ==
  /\ [](\A k \in DOMAIN posts :
          /\ DecodedContent(posts[k]) # << >>
          /\ validate_sanitize(DecodedContent(posts[k]), POST_REGEX))
  /\ [][ /\ last'.op = "create_post" =>
             \A form_content \in { c \in Contents : BadContent(c) },
                attachment \in Attachments :
               CreatePost(last'.user, last'.referer, form_content, attachment, now')
                 => /\ posts' = posts
                    /\ files' = files
                    /\ last'.calls = << >>
                    /\ last'.status = 400
         /\ last'.op = "update_post" =>
             \A form_content \in { c \in Contents : BadContent(c) } :
               UpdatePost(last'.user, last'.referer, last'.id, form_content)
                 => /\ posts' = posts
                    /\ files' = files
                    /\ last'.calls = << >>
                    /\ last'.status = 400
                    /\ last'.referer => last'.error = "No update fields provided" ]_vars

\* The owner's update_post with empty or invalid content was turned away, the
\* post keeping the content it had.
C15_Witness ==
  /\ last.op = "update_post" /\ last.status = 400
  /\ last.error = "No update fields provided"
  /\ last.id \in DOMAIN posts
  /\ posts[last.id].username = last.user
  /\ DecodedContent(posts[last.id]) = strip(Ok)

\* C16: the files in the blob store have names that differ from one another: two
\* successful uploads, of files with the same original filename too, are stored
\* under distinct names.
C16_StoredNamesDistinct ==
  \A a, b \in DOMAIN files : a # b => files[a].filename # files[b].filename

\* C18: an update_post or delete_post request that carries a Referer header and
\* no post id is answered 400 'Post ID is required' and makes no store call.
C18_PostIdRequired ==
  (last.op \in { "update_post", "delete_post" } /\ last.referer /\ last.id = NoId)
    => /\ last.status = 400
       /\ last.error = "Post ID is required"
       /\ last.calls = << >>

\* C19: a request never removes from the blob store a blob that a post of
\* another user refers to.
C19_AttachmentIsolation ==
  [][ \A k \in DOMAIN posts :
        ( /\ last'.op # "none"
          /\ posts[k].username # last'.user
          /\ posts[k].attachment.t = "ObjectId"
          /\ posts[k].attachment.v \in DOMAIN files )
          => posts[k].attachment.v \in DOMAIN files' ]_vars

(***************************************************************************)
(* The upload pipeline on its own: SpecUpload                              *)
(***************************************************************************)

Photo == << "p", "h", "o", "t", "o" >>
PhotoExe == << "p", "h", "o", "t", "o", ".", "e", "x", "e" >>
DotPng == << ".", "p", "n", "g" >>
MyPicGif == << ".", ".", "/", "m", "y", " ", "p", "i", "c", ".", "g", "i", "f" >>

UploadNames == { PhotoPng, ATxt, EvilPng, Photo, PhotoExe, DotPng, MyPicGif }

UploadBuffers ==
  { Empty, Png10, Text10,
    [len |-> 10, sig |-> "MZ"],
    [len |-> 10, sig |-> "GIF8"],
    [len |-> MAX_FILE_SIZE_BYTES, sig |-> "PNG"],
    [len |-> MAX_FILE_SIZE_BYTES, sig |-> "text"],
    [len |-> MAX_FILE_SIZE_BYTES + 1, sig |-> "PNG"],
    [len |-> MAX_FILE_SIZE_BYTES + 1, sig |-> "text"] }

\* upload_file(file), as create_post invokes it, against the blob store.
UploadFile(file) ==
  LET r == upload_file(file, files, MaxPosts + put + 1)
  IN  /\ DOMAIN r.files # DOMAIN files => put < MaxPosts
      /\ files' = r.files
      /\ put' = put + Cardinality(DOMAIN r.files \ DOMAIN files)
      /\ call' = Called(file, r)
      /\ UNCHANGED << posts, inserted, now, last, listing, filename, allowed, value,
                     verdict, procs >>

NextUpload ==
  \E name \in UploadNames, data \in UploadBuffers : UploadFile(File(name, data))

SpecUpload == Init /\ [][NextUpload]_vars

\* The lowercased text after the last '.' of a name is an allowed extension.
ExtensionAllowed(name) ==
  \E i \in 1..Len(name) :
    /\ name[i] = "."
    /\ \A j \in (i + 1)..Len(name) : name[j] # "."
    /\ lower(SubSeq(name, i + 1, Len(name))) \in ALLOWED_FILE_EXTENSIONS

Pipeline == << "size", "read", "empty", "extension", "unique_name", "sniff", "put" >>

IsPrefix(s, t) == Len(s) =< Len(t) /\ s = SubSeq(t, 1, Len(s))

\* What the first failing check of the pipeline returns for a file, and how many
\* steps have been performed by then; kind "stored" when no check fails.
FirstFailure(file) ==
  IF file.data.len > MAX_FILE_SIZE_BYTES
    THEN [at |-> 1, kind |-> PyTuple(ERROR_FILE_TOO_LARGE, HTTP_PAYLOAD_TOO_LARGE)]
  ELSE IF file.data.len = 0
    THEN [at |-> 3, kind |-> PyStr(ERROR_EMPTY_FILE)]
  ELSE IF ~ExtensionAllowed(secure_filename(file.filename))
    THEN [at |-> 4, kind |-> PyStr(ERROR_FILE_TYPE_NOT_ALLOWED)]
  ELSE IF magic_from_buffer(file.data) \notin ALLOWED_MIME_TYPES
    THEN [at |-> 6, kind |-> PyTuple(ERROR_INVALID_FILE_TYPE, HTTP_BAD_REQUEST)]
  ELSE [at |-> 7, kind |-> None]

\* C7: upload_file performs its steps in the order size, read, empty, extension,
\* unique name, sniff, put; it stops at the first failing check with the error of
\* that check; and an invocation that returns an error has not called put, the
\* blob store being as it was (a 10-byte a.txt: 'File type not allowed').
C7_UploadPipelineOrder ==
  [][ call'.ran
        => /\ IsPrefix(call'.steps, Pipeline)
           /\ Len(call'.steps) = FirstFailure(call'.file).at
           /\ call'.ret.t # "ObjectId"
                => /\ call'.ret = FirstFailure(call'.file).kind
                   /\ \A i \in 1..Len(call'.steps) : call'.steps[i] # "put"
                   /\ files' = files
           /\ call'.ret.t = "ObjectId"
                => /\ FirstFailure(call'.file).kind = None
                   /\ call'.steps[Len(call'.steps)] = "put"
                   /\ call'.ret.v \in DOMAIN files' \ DOMAIN files
           /\ call'.file = File(ATxt, Text10)
                => call'.ret = PyStr(ERROR_FILE_TYPE_NOT_ALLOWED) ]_vars

\* A file with an allowed extension was rejected by the content check, after an
\* earlier upload had been stored.
C7_Witness ==
  /\ call.ran
  /\ call.ret = PyTuple(ERROR_INVALID_FILE_TYPE, HTTP_BAD_REQUEST)
  /\ Cardinality(DOMAIN files) = 1

\* C8: a buffer of exactly MAX_FILE_SIZE_BYTES passes the size check, one of
\* MAX_FILE_SIZE_BYTES + 1 is rejected with 'File too large', and an empty buffer
\* is rejected with 'Empty File'.
C8_SizeBoundary ==
  call.ran
    => /\ call.file.data.len = MAX_FILE_SIZE_BYTES
            => /\ call.ret # PyTuple(ERROR_FILE_TOO_LARGE, HTTP_PAYLOAD_TOO_LARGE)
               /\ Len(call.steps) > 1
       /\ call.file.data.len = MAX_FILE_SIZE_BYTES + 1
            => call.ret = PyTuple(ERROR_FILE_TOO_LARGE, HTTP_PAYLOAD_TOO_LARGE)
       /\ call.file.data.len = 0 => call.ret = PyStr(ERROR_EMPTY_FILE)

\* A buffer of exactly the ceiling size was stored.
C8_Witness ==
  /\ call.ran
  /\ call.file.data.len = MAX_FILE_SIZE_BYTES
  /\ call.ret.t = "ObjectId"
  /\ call.ret.v \in DOMAIN files

Accepted(ret) == ret.t = "ObjectId"

\* The extension check of upload_file passes for this name.
PassesExtension(name) == ExtensionAllowed(secure_filename(name))

\* C10, as stated: an upload is accepted or rejected alike under every filename
\* that passes the extension check, and a buffer whose sniffed type is outside
\* ALLOWED_MIME_TYPES is rejected with 'Invalid file type' when its extension is
\* allowed.
C10_SniffedTypeAlwaysInvalidFileType ==
  (call.ran /\ PassesExtension(call.file.filename))
    => /\ \A name \in UploadNames :
            PassesExtension(name)
              => Accepted(upload_file(File(name, call.file.data), << >>, NoId).ret)
                   = Accepted(call.ret)
       /\ magic_from_buffer(call.file.data) \notin ALLOWED_MIME_TYPES
            => call.ret = PyTuple(ERROR_INVALID_FILE_TYPE, HTTP_BAD_REQUEST)

\* C10, amended: an upload is accepted or rejected alike under every filename that
\* passes the extension check, and a non-empty buffer of at most
\* MAX_FILE_SIZE_BYTES whose sniffed type is outside ALLOWED_MIME_TYPES is rejected
\* with 'Invalid file type' when its extension is allowed.
C10_ContentCheckIgnoresFilename ==
  (call.ran /\ PassesExtension(call.file.filename))
    => /\ \A name \in UploadNames :
            PassesExtension(name)
              => /\ Accepted(upload_file(File(name, call.file.data), << >>, NoId).ret)
                      = Accepted(call.ret)
                 /\ validate_file_type(call.file.data).valid
                      = (magic_from_buffer(call.file.data) \in ALLOWED_MIME_TYPES)
       /\ (/\ magic_from_buffer(call.file.data) \notin ALLOWED_MIME_TYPES
           /\ call.file.data.len > 0
           /\ call.file.data.len =< MAX_FILE_SIZE_BYTES)
            => call.ret = PyTuple(ERROR_INVALID_FILE_TYPE, HTTP_BAD_REQUEST)

\* A text buffer named evil.png was rejected by the content check.
C10_Witness ==
  /\ call.ran
  /\ call.file = File(EvilPng, Text10)
  /\ call.ret = PyTuple(ERROR_INVALID_FILE_TYPE, HTTP_BAD_REQUEST)

(***************************************************************************)
(* The extension check on its own: SpecExt                                 *)
(***************************************************************************)

\* How many characters are typed after the name the behaviour starts with.
MaxTyped == 5

StartNames == { << >>, Photo }

FilenameAlphabet == { ".", "P", "N", "G", "n", "e", "x" }

Typed == IF Len(filename) >= Len(Photo) /\ SubSeq(filename, 1, Len(Photo)) = Photo
         THEN Len(filename) - Len(Photo)
         ELSE Len(filename)

InitExt ==
  /\ posts = << >>
  /\ files = << >>
  /\ inserted = 0
  /\ put = 0
  /\ now = 0
  /\ last = Request("none", "", TRUE, NoId, "", Json("", 0), << >>)
  /\ listing = << >>
  /\ call = NotCalled
  /\ filename \in StartNames
  /\ allowed = allowed_file(filename)
  /\ value = << >>
  /\ verdict = FALSE
  /\ procs = << >>

\* One more character of the filename, and allowed_file of the result.
TypeChar(c) ==
  /\ Typed < MaxTyped
  /\ filename' = Append(filename, c)
  /\ allowed' = allowed_file(filename')
  /\ UNCHANGED << posts, files, inserted, put, now, last, listing, call, value,
               verdict, procs >>

NextExt == \E c \in FilenameAlphabet : TypeChar(c)

SpecExt == InitExt /\ [][NextExt]_vars

\* C9: allowed_file is true of a filename exactly when the filename has a '.' and
\* the lowercased text after its last '.' is in ALLOWED_FILE_EXTENSIONS; photo.PNG
\* is accepted, photo and photo.exe are rejected.
C9_AllowedFile ==
  /\ allowed = ExtensionAllowed(filename)
  /\ filename = Photo \o << ".", "P", "N", "G" >> => allowed
  /\ filename = Photo => ~allowed
  /\ filename = PhotoExe => ~allowed

\* A name with two dots and an upper-case extension was accepted.
C9_Witness ==
  /\ allowed
  /\ filename = Photo \o << ".", ".", "P", "n", "G" >>

(***************************************************************************)
(* The sanitizer on its own: SpecSanitize                                  *)
(***************************************************************************)

\* How many characters a form value is typed to.
MaxText == 4

\* Characters of the pattern the transform keeps ("a", " ", "!"), one of the
\* pattern it alters ("\r"), one outside the pattern it keeps ("@") and two
\* outside the pattern it escapes ("<", "&"). No value over this alphabet holds a
\* complete element or character reference, which bleach would keep.
TextAlphabet == { "a", " ", "!", "\r", "@", "<", "&" }

\* One more character of the value, and validate_sanitize of the result.
TypeText(c) ==
  /\ Len(value) < MaxText
  /\ value' = Append(value, c)
  /\ verdict' = validate_sanitize(value', POST_REGEX)
  /\ UNCHANGED << posts, files, inserted, put, now, last, listing, call, filename,
                  allowed, procs >>

NextSanitize == \E c \in TextAlphabet : TypeText(c)

SpecSanitize == Init /\ [][NextSanitize]_vars

\* The whole of s, from its first character to its last, is one or more
\* characters of the class.
WholeMatch(s, class) == s # << >> /\ { s[i] : i \in DOMAIN s } \subseteq class

\* The markup-neutralizing transform changes s.
Altered(s) == bleach_clean(s) # s

\* C11: validate_sanitize(value, POST_REGEX) is true exactly when the whole value
\* matches the pattern and the transform leaves it unchanged; so an accepted
\* value is a fixed point of the transform, and a value the transform alters, or
\* one that matches only in part, is rejected.
C11_ValidateSanitize ==
  /\ verdict = (WholeMatch(value, POST_REGEX) /\ ~Altered(value))
  /\ verdict => bleach_clean(value) = value
  /\ Altered(value) => ~verdict
  /\ (\E i \in DOMAIN value : value[i] \notin POST_REGEX) => ~verdict

\* A value of pattern characters that the transform keeps was accepted.
C11_Witness ==
  /\ verdict
  /\ value = << "a", " ", "a", "!" >>

(***************************************************************************)
(* Requests in progress, one store call at a time: SpecConc                *)
(***************************************************************************)

\* How many requests are in progress at once.
NumProcs == 2

Procs == 1..NumProcs

\* str(e) of an exception a store call raises.
STORE_ERROR == "store error detail"

\* A view function about to run: the request's fields and the function's local
\* variables (found is `post`, attachment_id the local of that name), the store
\* calls issued so far, and the response once pc is "done".
Proc(op, user, referer, id, form_content, attachment, attachment_id) ==
  [attachment |-> attachment,
   attachment_id |-> attachment_id,
   calls |-> << >>,
   content |-> form_content,
   detail |-> "",
   error |-> "",
   found |-> FALSE,
   id |-> id,
   op |-> op,
   pc |-> "start",
   raised |-> FALSE,
   referer |-> referer,
   status |-> 0,
   user |-> user]

\* return jsonify(...), status / return redirect('/'): the function is over.
Return(self, response) ==
  [self EXCEPT !.pc = "done", !.error = response.error, !.status = response.status]

\* A store call of the function has been issued.
Issue(self, c) == [self EXCEPT !.calls = Append(self.calls, c)]

\* The call just issued raised.
Raise(self) == [self EXCEPT !.raised = TRUE]

\* create_post() up to and including its next store call: the upload (GridFS put)
\* when there is a file, then insert_one. raised: that call raises.
create_post_step(self, docs, blobs, post_oid, blob_oid, created_at, raised) ==
  LET same(proc) == [files |-> blobs, posts |-> docs, proc |-> proc]
      content == strip(self.content)
      failed == Json("Failed to create post", 500)
  IN
  IF self.pc = "start"
  THEN
    IF is_direct_call(self.referer)
    THEN same(Return(self, Json(ERROR_DIRECT_CALL_DENIED, 400)))
    ELSE IF ~self.attachment.part
    THEN same(Return(self, Unhandled(400)))
    ELSE IF Len(content) = 0
    THEN same(Return(self, Json("Post content is required", 400)))
    ELSE IF ~validate_sanitize(content, POST_REGEX)
    THEN same(Return(self, Json("Invalid data", 400)))
    ELSE IF Len(self.attachment.filename) = 0
    THEN same([self EXCEPT !.pc = "insert_one"])
    ELSE
      LET up == upload_file(self.attachment, blobs, blob_oid)
          puts == \E k \in DOMAIN up.steps : up.steps[k] = "put"
      IN  IF ~puts
          THEN same([self EXCEPT !.pc = "insert_one", !.attachment_id = up.ret])
          ELSE IF raised
          THEN same(Return(Raise(Issue(self, "put")), failed))
          ELSE [files |-> up.files,
                posts |-> docs,
                proc |-> [Issue(self, "put") EXCEPT !.pc = "insert_one",
                                                    !.attachment_id = up.ret]]
  ELSE
    LET post == [attachment |-> self.attachment_id,
                 comments |-> << >>,
                 content |-> b64encode(encode_utf8(content)),
                 created_at |-> created_at,
                 likes |-> << >>,
                 username |-> self.user]
    IN  IF raised
        THEN same(Return(Raise(Issue(self, "insert_one")), failed))
        ELSE [files |-> blobs,
              posts |-> insert_one(docs, post_oid, post),
              proc |-> Return(Issue(self, "insert_one"), Redirect)]

\* update_post(): its one store call is update_one, outside any try.
update_post_step(self, docs, raised) ==
  LET r == update_post(self.user, self.referer, self.id, self.content, docs)
  IN  IF Len(r.calls) = 0
      THEN [posts |-> docs, proc |-> Return(self, r.response)]
      ELSE IF raised
      THEN [posts |-> docs,
            proc |-> Return(Raise(Issue(self, "update_one")), Unhandled(500))]
      ELSE [posts |-> r.posts,
            proc |-> Return(Issue(self, "update_one"), r.response)]

\* except Exception as e: return jsonify({'error': f'Error while deleting post:
\* {str(e)}'}), 500
delete_post_except(self) ==
  [Return(Raise(self), Json("Error while deleting post: ", 500))
     EXCEPT !.detail = STORE_ERROR]

\* delete_post with the post record removed before the blob.
delete_post_step_record_first(self, docs, blobs, raised) ==
  LET same(proc) == [files |-> blobs, posts |-> docs, proc |-> proc]
      matched == Matches(docs, self.id, self.user)
  IN
  CASE self.pc = "start" ->
         IF is_direct_call(self.referer)
         THEN same(Return(self, Json(ERROR_DIRECT_CALL_DENIED, 400)))
         ELSE IF ~bool(ObjectId(self.id))
         THEN same(Return(self, Json("Post ID is required", 400)))
         ELSE IF raised
         THEN same(delete_post_except(Issue(self, "find_one")))
         ELSE IF matched = { }
         THEN same(Return(Issue(self, "find_one"), Json(ERROR_POST_NOT_FOUND, 403)))
         ELSE same([Issue(self, "find_one") EXCEPT !.found = TRUE, !.pc = "delete_one"])
    [] self.pc = "delete" ->
         IF raised
         THEN same(delete_post_except(Issue(self, "delete")))
         ELSE [files |-> fs_delete(blobs, self.attachment_id),
               posts |-> docs,
               proc |-> Return(Issue(self, "delete"), Redirect)]
    [] OTHER ->
         IF raised
         THEN same(delete_post_except(Issue(self, "delete_one")))
         ELSE [files |-> blobs,
               posts |-> delete_one(docs, self.id, self.user),
               proc |-> [Issue(self, "delete_one") EXCEPT !.pc = "delete"]]

\* delete_post() up to and including its next store call: find_one, then the
\* GridFS delete, then delete_one, all inside the try.
delete_post_step(self, docs, blobs, raised) ==
  LET same(proc) == [files |-> blobs, posts |-> docs, proc |-> proc]
      matched == Matches(docs, self.id, self.user)
  IN
  CASE self.pc = "start" ->
         IF is_direct_call(self.referer)
         THEN same(Return(self, Json(ERROR_DIRECT_CALL_DENIED, 400)))
         ELSE IF ~bool(ObjectId(self.id))
         THEN same(Return(self, Json("Post ID is required", 400)))
         ELSE IF raised
         THEN same(delete_post_except(Issue(self, "find_one")))
         ELSE IF matched = { }
         THEN same(Return(Issue(self, "find_one"), Json(ERROR_POST_NOT_FOUND, 403)))
         ELSE same([Issue(self, "find_one") EXCEPT !.found = TRUE, !.pc = "delete"])
    [] self.pc = "delete" ->
         IF raised
         THEN same(delete_post_except(Issue(self, "delete")))
         ELSE [files |-> fs_delete(blobs, self.attachment_id),
               posts |-> docs,
               proc |-> [Issue(self, "delete") EXCEPT !.pc = "delete_one"]]
    [] OTHER ->
         IF raised
         THEN same(delete_post_except(Issue(self, "delete_one")))
         ELSE [files |-> blobs,
               posts |-> delete_one(docs, self.id, self.user),
               proc |-> Return(Issue(self, "delete_one"),
                              IF Cardinality(matched) = 0
                              THEN Json(ERROR_POST_NOT_FOUND, 403)
                              ELSE Redirect)]

\* The stores when the requests arrive: alice has created one post, with a photo.
Seeded == create_post("alice", TRUE, Hi, File(PhotoPng, Png10), 0, << >>, << >>,
                      1, MaxPosts + 1)

SeededBlob == ObjectId(MaxPosts + 1)

\* The requests that can be in progress.
ConcRequests ==
  { Proc("delete_post", user, TRUE, 1, << >>, NoFile, attachment_id) :
      user \in Users, attachment_id \in { SeededBlob, None } }
  \cup { Proc("delete_post", "alice", FALSE, 1, << >>, NoFile, None) }
  \cup { Proc("update_post", user, TRUE, 1, Ok, NoFile, None) : user \in Users }
  \cup { Proc("update_post", "alice", TRUE, 1, << "<", "b", ">" >>, NoFile, None) }
  \cup { Proc("create_post", "alice", TRUE, NoId, Ok, attachment, None) :
           attachment \in { NoFile, File(PhotoPng, Png10), File(ATxt, Text10) } }

InitConc ==
  /\ posts = Seeded.posts
  /\ files = Seeded.files
  /\ inserted = 1
  /\ put = 1
  /\ now = 0
  /\ last = Request("none", "", TRUE, NoId, "", Json("", 0), << >>)
  /\ listing = << >>
  /\ call = NotCalled
  /\ filename = << >>
  /\ allowed = FALSE
  /\ value = << >>
  /\ verdict = FALSE
  /\ procs \in [Procs -> ConcRequests]

\* Request p takes its next step; the other requests and the clock stand still.
CreateStep(p) ==
  /\ procs[p].op = "create_post"
  /\ procs[p].pc # "done"
  /\ \E raised \in BOOLEAN :
       LET r == create_post_step(procs[p], posts, files, inserted + 1,
                                 MaxPosts + put + 1, now, raised)
       IN  /\ posts' = r.posts
           /\ files' = r.files
           /\ inserted' = inserted + Cardinality(DOMAIN r.posts \ DOMAIN posts)
           /\ put' = put + Cardinality(DOMAIN r.files \ DOMAIN files)
           /\ procs' = [procs EXCEPT ![p] = r.proc]
           /\ UNCHANGED << now, last, listing, call, filename, allowed, value,
                           verdict >>

UpdateStep(p) ==
  /\ procs[p].op = "update_post"
  /\ procs[p].pc # "done"
  /\ \E raised \in BOOLEAN :
       LET r == update_post_step(procs[p], posts, raised)
       IN  /\ posts' = r.posts
           /\ procs' = [procs EXCEPT ![p] = r.proc]
           /\ UNCHANGED << files, inserted, put, now, last, listing, call, filename,
                           allowed, value, verdict >>

DeleteStep(p) ==
  /\ procs[p].op = "delete_post"
  /\ procs[p].pc # "done"
  /\ \E raised \in BOOLEAN :
       LET r == delete_post_step(procs[p], posts, files, raised)
       IN  /\ posts' = r.posts
           /\ files' = r.files
           /\ procs' = [procs EXCEPT ![p] = r.proc]
           /\ UNCHANGED << inserted, put, now, last, listing, call, filename,
                           allowed, value, verdict >>

NextConc ==
  \/ \E p \in Procs : CreateStep(p)
  \/ \E p \in Procs : UpdateStep(p)
  \/ \E p \in Procs : DeleteStep(p)

SpecConc == InitConc /\ [][NextConc]_vars

(***************************************************************************)
(* Properties of requests in progress, checked under SpecConc              *)
(***************************************************************************)

\* C12: a create_post, update_post or delete_post request one of whose store
\* calls raised ends with a response produced by the handler itself (not by an
\* exception leaving it) that is a generic error: status 500 and no exception
\* text in the body.
C12_StoreFailureIsGeneric ==
  \A p \in Procs :
    procs[p].raised =>
      /\ procs[p].pc = "done"
      /\ procs[p].status = 500
      /\ procs[p].error # Unhandled(500).error
      /\ procs[p].detail = ""

\* Request p takes a step that changes the content store or the blob store.
SideEffect(p) ==
  /\ procs'[p] # procs[p]
  /\ posts' # posts \/ files' # files

\* C13: a step of an update_post or delete_post request that changes the post
\* records or the blob store is taken in a state where the post with the
\* request's id and owner exists: what the request read is still true when its
\* side effect is applied.
C13_NoSideEffectOnStaleRead ==
  [][\A p \in Procs :
       (procs[p].op \in { "update_post", "delete_post" } /\ SideEffect(p))
         => Matches(posts, procs[p].id, procs[p].user) # { }]_vars

DeleteCalls == << "find_one", "delete", "delete_one" >>

\* C17: a delete_post request issues find_one, then the blob delete, then
\* delete_one, in that order and each at most once; the blob delete only when the
\* lookup found the post; and a request whose lookup finds nothing is answered
\* 403 'Post not found or forbidden' in that step, with both stores unchanged and
\* no further call.
C17_DeleteStepOrder ==
  [][\A p \in Procs :
       (procs[p].op = "delete_post" /\ procs'[p] # procs[p]) =>
         /\ IsPrefix(procs'[p].calls, DeleteCalls)
         /\ Len(procs'[p].calls) >= 2 => procs'[p].found
         /\ files' # files => procs'[p].calls = SubSeq(DeleteCalls, 1, 2)
         /\ posts' # posts => procs'[p].calls = DeleteCalls
         /\ ( /\ procs[p].pc = "start"
              /\ procs[p].referer
              /\ ~procs'[p].raised
              /\ Matches(posts, procs[p].id, procs[p].user) = { } )
            => /\ procs'[p].pc = "done"
               /\ procs'[p].status = 403
               /\ procs'[p].error = ERROR_POST_NOT_FOUND
               /\ procs'[p].calls = << "find_one" >>
               /\ posts' = posts
               /\ files' = files]_vars

\* The owner's delete_post went through its three calls and removed the post and
\* its blob, and another user's delete_post stopped at the lookup.
C17_Witness ==
  \E p, q \in Procs :
    /\ procs[p].op = "delete_post" /\ procs[p].user = "alice"
    /\ procs[p].calls = DeleteCalls /\ procs[p].status = 302
    /\ posts = << >> /\ files = << >>
    /\ procs[q].op = "delete_post" /\ procs[q].user = "bob"
    /\ procs[q].calls = << "find_one" >> /\ procs[q].status = 403

=============================================================================
